---------------------------- MODULE Spec2Model ----------------------------
(***************************************************************************)
(* One invocation of the enhanced UserPromptSubmit hook                    *)
(* (hooks/UserPromptSubmit/ultimate_prompt_hook_enhanced.py): the prompt   *)
(* is read from standard input, trailing flags are split off, context      *)
(* fragments are accumulated and printed, and an event record is logged.   *)
(*                                                                         *)
(* A Python string is a sequence of one-character strings.  A text that    *)
(* is only ever concatenated, stripped and joined (a context fragment) is  *)
(* the sequence of its lines, i.e. the string split at "\n".               *)
(***************************************************************************)
EXTENDS Integers, Sequences, FiniteSets, TLC

VARIABLES
    stdin,              \* the document on standard input
    USE_BASE_HANDLERS,  \* whether ultimate-prompt-hook.py could be loaded
    ENABLE_LOGGING,     \* the logging toggle
    pc,                 \* position in main()
    prompt,             \* input_data.get("prompt", "")
    session_id,         \* input_data.get("session_id", "unknown")
    clean_prompt,       \* main's clean_prompt
    flags,              \* main's flags
    contexts,           \* enhancer.contexts
    log_data,           \* enhancer.log_data
    applied_flags,      \* main's applied_flags
    idx,                \* position of the for loop in flags
    disk,               \* what bmad() met on disk, once it has looked
    probe_failed,       \* some ambient probe of this run has failed
    stdout,             \* what was printed on standard output
    stderr,             \* what was printed on the error stream
    log_file,           \* lines appended to prompt_hooks.jsonl by this run
    exc,                \* the exception caught by main's except clause
    exit_code           \* the status passed to sys.exit, -1 while running

vars == <<stdin, USE_BASE_HANDLERS, ENABLE_LOGGING, pc, prompt, session_id,
          clean_prompt, flags, contexts, log_data, applied_flags, idx,
          disk, probe_failed, stdout, stderr, log_file, exc, exit_code>>

---------------------------------------------------------------------------
(* Bounds of the model.                                                    *)

\* longest prompt over ParseAlphabet given to parse_flags in SpecParse
MaxLen == 5
\* most flags appended to a prompt in Spec
MaxFlags == 2
\* most story files found by the glob in bmad()
MaxStories == 1

---------------------------------------------------------------------------
(* Characters.                                                             *)

LowerLetters == <<"a","b","c","d","e","f","g","h","i","j","k","l","m",
                  "n","o","p","q","r","s","t","u","v","w","x","y","z">>
UpperLetters == <<"A","B","C","D","E","F","G","H","I","J","K","L","M",
                  "N","O","P","Q","R","S","T","U","V","W","X","Y","Z">>
Digits == {"0","1","2","3","4","5","6","7","8","9"}
Letters == {LowerLetters[i] : i \in 1..26} \cup {UpperLetters[i] : i \in 1..26}

\* the class [a-zA-Z_] of both patterns of parse_flags
IsFlagChar(c) == c \in Letters \cup {"_"}
\* the class \s, which is also what str.strip and str.rstrip remove
IsSpace(c) == c \in {" ", "\t", "\n", "\r", "\f"}
\* the class \w, on which \b depends
IsWordChar(c) == c \in Letters \cup Digits \cup {"_"}

\* str.lower, one character
LowerChar(c) ==
    IF \E i \in 1..26 : UpperLetters[i] = c
    THEN LowerLetters[CHOOSE i \in 1..26 : UpperLetters[i] = c]
    ELSE c
\* str.lower
Lower(s) == [i \in 1..Len(s) |-> LowerChar(s[i])]

RECURSIVE rstrip(_)
\* str.rstrip
rstrip(s) ==
    IF s # <<>> /\ IsSpace(s[Len(s)]) THEN rstrip(SubSeq(s, 1, Len(s) - 1)) ELSE s

RECURSIVE lstrip(_)
\* str.lstrip
lstrip(s) == IF s # <<>> /\ IsSpace(s[1]) THEN lstrip(Tail(s)) ELSE s

\* str.strip
strip(s) == lstrip(rstrip(s))

\* s.startswith(w)
StartsWith(s, w) == Len(w) <= Len(s) /\ SubSeq(s, 1, Len(w)) = w

---------------------------------------------------------------------------
(* parse_flags: the regular expressions, as the re module matches them.    *)

RECURSIVE SkipSpaces(_, _)
\* the first position >= i of s that holds no whitespace (\s+ is greedy)
SkipSpaces(s, i) ==
    IF i <= Len(s) /\ IsSpace(s[i]) THEN SkipSpaces(s, i + 1) ELSE i

RECURSIVE SkipFlagChars(_, _)
\* the first position >= i of s that holds no [a-zA-Z_] ([a-zA-Z_]+ is greedy)
SkipFlagChars(s, i) ==
    IF i <= Len(s) /\ IsFlagChar(s[i]) THEN SkipFlagChars(s, i + 1) ELSE i

\* $ as \Z: the end of the string only
EndAnchorsStrict(s) == {Len(s) + 1}
\* where $ matches without re.MULTILINE: at the end of the string, and just
\* before a newline that is the last character (positions are 1-based, the
\* position after the last character is Len(s) + 1)
EndAnchors(s) ==
    {Len(s) + 1} \cup (IF s # <<>> /\ s[Len(s)] = "\n" THEN {Len(s)} ELSE {})

RECURSIVE MatchEnd(_, _)
\* ((?:^|\s+)-[a-zA-Z_]+)+$ tried at position i: the position after the
\* match, or 0 when the pattern does not match there.  One group is
\* whitespace (none only at the start of the string), a dash and letters;
\* both repetitions are greedy and giving characters back never helps,
\* since what follows a shorter repetition is a character of its own class.
MatchEnd(s, i) ==
    LET j == SkipSpaces(s, i)
        k == SkipFlagChars(s, j + 1)
    IN  IF (j > i \/ i = 1) /\ j <= Len(s) /\ s[j] = "-" /\ k > j + 1
        THEN IF k = Len(s) + 1 THEN k
             ELSE IF MatchEnd(s, k) # 0 THEN MatchEnd(s, k)
             ELSE IF k \in EndAnchors(s) THEN k
             ELSE 0
        ELSE 0

\* a search that keeps the match at the rightmost position instead
re_search_last(s) ==
    LET starts == {i \in 1..Len(s) : MatchEnd(s, i) # 0}
    IN  IF starts = {} THEN [found |-> FALSE]
        ELSE LET i == CHOOSE x \in starts : \A y \in starts : y <= x
             IN  [found |-> TRUE, start |-> i, end |-> MatchEnd(s, i)]
\* re.search(flags_pattern, prompt): the match at the leftmost position
\* where the pattern matches; start and end as 1-based positions, end
\* being the position after the match
re_search(s) ==
    LET starts == {i \in 1..Len(s) : MatchEnd(s, i) # 0}
    IN  IF starts = {} THEN [found |-> FALSE]
        ELSE LET i == CHOOSE x \in starts : \A y \in starts : x <= y
             IN  [found |-> TRUE, start |-> i, end |-> MatchEnd(s, i)]

RECURSIVE re_findall(_, _)
\* re.findall(r"-([a-zA-Z_]+)", s) scanning from position i: the letters
\* of every dash that letters follow, left to right, without overlap
re_findall(s, i) ==
    IF i > Len(s) THEN <<>>
    ELSE IF s[i] = "-" /\ SkipFlagChars(s, i + 1) > i + 1
         THEN <<SubSeq(s, i + 1, SkipFlagChars(s, i + 1) - 1)>>
              \o re_findall(s, SkipFlagChars(s, i + 1))
         ELSE re_findall(s, i + 1)

\* parse_flags(prompt) = <<clean_prompt, flags>>
parse_flags(p) ==
    LET match == re_search(p)
    IN  IF match.found
        THEN LET flags_str == SubSeq(p, match.start, match.end - 1)
             IN  <<rstrip(SubSeq(p, 1, match.start - 1)), re_findall(flags_str, 1)>>
        ELSE <<p, <<>>>>

---------------------------------------------------------------------------
(* should_apply_defaults.                                                  *)

\* the alternatives of skip_patterns[0], which a \b follows
SkipCommands ==
    { <<"l", "s">>, <<"d", "i", "r">>, <<"p", "w", "d">>, <<"c", "d">>, <<"c", "a", "t">>, <<"g", "r", "e", "p">>, <<"f", "i", "n", "d">>, <<"w", "h", "i", "c", "h">>,
      <<"w", "h", "a", "t">>, <<"w", "h", "e", "r", "e">>, <<"w", "h", "o">>, <<"w", "h", "e", "n">>, <<"h", "o", "w", " ", "m", "u", "c", "h">>, <<"h", "o", "w", " ", "m", "a", "n", "y">> }
\* the alternatives of the first group of skip_patterns[1], which \s+ follows
SkipRetrievals == { <<"s", "h", "o", "w">>, <<"l", "i", "s", "t">>, <<"d", "i", "s", "p", "l", "a", "y">>, <<"g", "e", "t">>, <<"f", "e", "t", "c", "h">> }
\* the alternatives of skip_patterns[3]
SkipGreetings == { <<"h", "i">>, <<"h", "e", "l", "l", "o">>, <<"h", "e", "y">>, <<"t", "h", "a", "n", "k", "s">>, <<"t", "h", "a", "n", "k", " ", "y", "o", "u">>, <<"b", "y", "e">> }

\* re.match(pattern, prompt_lower) for some pattern of skip_patterns
MatchesSkipPattern(pl) ==
    \/ \E w \in SkipCommands :
          /\ StartsWith(pl, w)
          /\ (Len(pl) = Len(w) \/ ~IsWordChar(pl[Len(w) + 1]))
    \/ \E w \in SkipRetrievals :
          /\ StartsWith(pl, w)
          /\ Len(pl) > Len(w)
          /\ IsSpace(pl[Len(w) + 1])
    \/ StartsWith(pl, <<"?">>)
    \/ \E w \in SkipGreetings : StartsWith(pl, w)

\* should_apply_defaults(prompt, flags); the flags are not consulted
should_apply_defaults(p, fl) == ~MatchesSkipPattern(Lower(p))

---------------------------------------------------------------------------
(* Texts: a string as the sequence of its lines.                           *)

\* the string ""
EmptyText == <<"">>

\* a + b: the last line of a and the first line of b become one line
Cat(a, b) ==
    SubSeq(a, 1, Len(a) - 1) \o <<a[Len(a)] \o b[1]>> \o Tail(b)

RECURSIVE DropLeadingBlank(_)
DropLeadingBlank(t) ==
    IF Len(t) > 1 /\ t[1] = "" THEN DropLeadingBlank(Tail(t)) ELSE t

RECURSIVE DropTrailingBlank(_)
DropTrailingBlank(t) ==
    IF Len(t) > 1 /\ t[Len(t)] = ""
    THEN DropTrailingBlank(SubSeq(t, 1, Len(t) - 1)) ELSE t

\* context.strip(), for a text none of whose lines starts or ends with
\* whitespace: the empty lines at both ends go
StripText(t) == DropLeadingBlank(DropTrailingBlank(t))

RECURSIVE JoinLines(_)
\* "\n".join(contexts): every context starts on a line of its own
JoinLines(cs) == IF cs = <<>> THEN <<>> ELSE Head(cs) \o JoinLines(Tail(cs))

ANTI_WRAPPER_RULE ==
    << "",
       "",
       "CRITICAL DEVELOPMENT RULE:",
       "Don't write or generate any wrapper or replacement code for existing third-party packages.",
       "",
       "Use the official API of the specified package directly, as documented.",
       "",
       "A successful solution must:",
       "* Solve only the exact problem specified",
       "* Use the provided third-party package without modification or abstraction",
       "* Require minimal integration effort with the existing system",
       "* Preserve existing architecture and patterns",
       "* Include concise explanations of the API calls used and why",
       "",
       "Don't write or change any code until you're at least 95% confident in what needs to be done. If anything is unclear, ask for more information.",
       "" >>

\* EnhancedFlagHandlers.engineering_standards()
engineering_standards ==
    LET base_standards ==
        << "",
           "Follow the project's principal engineering standards. No shortcuts, stubs, or hardcoded values. We build it right the first time: clean, robust, and production ready. No halfway measures.",
           "",
           "Keep it tight. Use the simplest solution that meets the need with high quality. Do not overengineer. Do not create new files, layers, or abstractions unless they are clearly necessary. Every line of code should earn its place. Simplicity is earned through understanding, not guesswork.",
           "",
           "Make it clean. Make it count.",
           "",
           "If you encounter uncertainty, lack context, or are not confident in the solution, stop. Do not guess or make things up. It is not only okay, it is expected, to ask for clarification or help. Excellence includes knowing when to pause.",
           "" >>
    IN  Cat(base_standards, ANTI_WRAPPER_RULE)

\* EnhancedFlagHandlers.no_guess()
no_guess ==
    Cat(<< "", "",
           "Do not guess or make assumptions. If something is unclear or you lack necessary context, stop and ask for clarification. It's better to ask than to implement incorrectly." >>,
        ANTI_WRAPPER_RULE)

\* the outcome of one Path.exists() of bmad(): the path is there, is not
\* there, or the stat behind exists() fails with an error that exists()
\* passes on (PermissionError)
ProbeOutcomes == {"present", "absent", "error"}

\* what bmad() can meet on disk, probe by probe; stories is the length of
\* list(stories_dir.glob("*.md"))
FsStates ==
    [ core : ProbeOutcomes, tech_prefs : ProbeOutcomes,
      stories_dir : ProbeOutcomes, stories : 0..MaxStories,
      arch_docs : ProbeOutcomes, prd_file : ProbeOutcomes ]

BmadNotDetected ==
    << "", "", "[BMad Method Not Detected - Install with: npx bmad-method install]" >>

Returned(t) == [raised |-> FALSE, text |-> t]
Raised(e) == [raised |-> TRUE, error |-> e]

\* EnhancedFlagHandlers.bmad() on the disk state fs: the text returned, or
\* the exception a failing probe raises (bmad catches none)
bmad(fs) ==
    LET c0 == EmptyText
        c1 == Cat(c0, << "", "", "[BMad Method Active]" >>)
        c2 == IF fs.tech_prefs = "present"
              THEN Cat(c1, << "", "Reference technical preferences from bmad-core/data/technical-preferences.md" >>)
              ELSE c1
        c3 == IF fs.stories_dir = "present" /\ fs.stories > 0
              THEN Cat(c2, << "", "Active stories available in docs/stories/ ("
                                  \o ToString(fs.stories) \o " stories)" >>)
              ELSE c2
        c4 == IF fs.arch_docs = "present"
              THEN Cat(c3, << "", "Architecture documentation available in docs/architecture/" >>)
              ELSE c3
        c5 == IF fs.prd_file = "present"
              THEN Cat(c4, << "", "PRD available in docs/prd.md" >>)
              ELSE c4
    IN  IF fs.core = "error" THEN Raised("PermissionError")
        ELSE IF fs.core = "absent" THEN Returned(Cat(c0, BmadNotDetected))
        ELSE IF fs.tech_prefs = "error" THEN Raised("PermissionError")
        ELSE IF fs.stories_dir = "error" THEN Raised("PermissionError")
        ELSE IF fs.arch_docs = "error" THEN Raised("PermissionError")
        ELSE IF fs.prd_file = "error" THEN Raised("PermissionError")
        ELSE Returned(Cat(c5, << "", "Apply BMad workflow patterns and engineering standards." >>))

\* EnhancedFlagHandlers.bmad_story()
bmad_story ==
    << "", "",
       "BMad Story Mode: Reference story file for context and acceptance criteria. Implement with tests and update story with implementation notes. Use engineering standards and verify against existing codebase patterns." >>

\* EnhancedFlagHandlers.bmad_review()
bmad_review ==
    << "", "",
       "BMad Review Mode: Apply BMad QA checklist. Review against acceptance criteria, check architectural alignment, suggest improvements. Use systematic review approach." >>

\* EnhancedFlagHandlers.help(); the pictograph that opens each heading of
\* the source is left out
help ==
    <<
       "",
       "The user has just asked for help understanding the UserPromptSubmit hooks. Please display the following help message:",
       "Here are all available UserPromptSubmit hook flags:",
       "",
       "THINKING MODES",
       "- -u, -ultrathink    Maximum thinking budget (31,999 tokens) for complex problems",
       "- -th, -think_hard   Enhanced thinking for challenging tasks",
       "- -t, -think         Step-by-step thinking for standard problems",
       "",
       "QUALITY & STANDARDS",
       "- -e, -eng, -standards    Apply engineering standards (no shortcuts, production-ready)",
       "- -clean                  Follow clean code principles (SOLID, DRY, meaningful names)",
       "",
       "DEVELOPMENT MODES",
       "- -p, -plan          Create detailed plan before implementation",
       "- -v, -verbose       Include verbose explanations and detailed comments",
       "- -s, -sec, -security    Focus on security best practices",
       "- -test              Include comprehensive unit tests",
       "- -doc               Provide detailed documentation with examples",
       "- -perf              Optimize for performance with benchmarks",
       "- -review            Critical code review mode",
       "- -refactor          Refactor for clarity and maintainability",
       "- -debug             Systematic debugging approach",
       "- -api               API design best practices",
       "",
       "OTHER OPTIONS",
       "- -ng, -no_guess     Never guess; ask for clarification instead",
       "- -ctx, -context     Include project context (package managers, tools)",
       "- -hh, -hhelp        Show this help message",
       "",
       "BMAD METHOD FLAGS (Enhanced Version)",
       "- -bmad              BMad Method context and patterns",
       "- -bmad-story        BMad story implementation mode",
       "- -bmad-review       BMad review and QA mode",
       "",
       "COMMON COMBINATIONS",
       "Complex problem:     -u -p        (ultrathink + plan)",
       "Production feature:  -e -test -doc (standards + tests + docs)",
       "Code review:        -review -u    (review + deep thinking)",
       "BMad workflow:      -bmad -u -p   (BMad context + ultrathink + plan)",
       "BMad story impl:    -bmad-story -e -test (BMad story + standards + tests)",
       "",
       "Note: Engineering standards include anti-wrapper rule enforcement. BMad flags only available in enhanced version."
    >>

---------------------------------------------------------------------------
(* get_enhanced_flag_handler.  A handler is named by its method; "None"    *)
(* is Python's None.                                                       *)

enhanced_mapping ==
    <<"e">> :> "engineering_standards" @@
    <<"e", "n", "g">> :> "engineering_standards" @@
    <<"s", "t", "a", "n", "d", "a", "r", "d", "s">> :> "engineering_standards" @@
    <<"n", "o", "_", "g", "u", "e", "s", "s">> :> "no_guess" @@
    <<"n", "g">> :> "no_guess" @@
    <<"b", "m", "a", "d">> :> "bmad" @@
    <<"b", "m", "a", "d", "_", "s", "t", "o", "r", "y">> :> "bmad_story" @@
    <<"b", "m", "a", "d", "_", "r", "e", "v", "i", "e", "w">> :> "bmad_review" @@
    <<"h", "h">> :> "help" @@
    <<"h", "h", "e", "l", "p">> :> "help"

base_mapping ==
    <<"u">> :> "ultrathink" @@
    <<"u", "l", "t", "r", "a", "t", "h", "i", "n", "k">> :> "ultrathink" @@
    <<"t", "h">> :> "think_hard" @@
    <<"t", "h", "i", "n", "k", "_", "h", "a", "r", "d">> :> "think_hard" @@
    <<"t">> :> "think" @@
    <<"t", "h", "i", "n", "k">> :> "think" @@
    <<"c", "l", "e", "a", "n">> :> "clean" @@
    <<"p">> :> "plan" @@
    <<"p", "l", "a", "n">> :> "plan" @@
    <<"v">> :> "verbose" @@
    <<"v", "e", "r", "b", "o", "s", "e">> :> "verbose" @@
    <<"s">> :> "security" @@
    <<"s", "e", "c">> :> "security" @@
    <<"s", "e", "c", "u", "r", "i", "t", "y">> :> "security" @@
    <<"t", "e", "s", "t">> :> "test" @@
    <<"d", "o", "c">> :> "doc" @@
    <<"p", "e", "r", "f">> :> "perf" @@
    <<"r", "e", "v", "i", "e", "w">> :> "review" @@
    <<"r", "e", "f", "a", "c", "t", "o", "r">> :> "refactor" @@
    <<"d", "e", "b", "u", "g">> :> "debug" @@
    <<"a", "p", "i">> :> "api" @@
    <<"c", "t", "x">> :> "context" @@
    <<"c", "o", "n", "t", "e", "x", "t">> :> "context"

\* get_enhanced_flag_handler(flag) when USE_BASE_HANDLERS is use_base
get_enhanced_flag_handler(flag, use_base) ==
    IF Lower(flag) \in DOMAIN enhanced_mapping
    THEN enhanced_mapping[Lower(flag)]
    ELSE IF use_base
         THEN IF Lower(flag) \in DOMAIN base_mapping
              THEN base_mapping[Lower(flag)]
              ELSE "None"
         ELSE "None"

\* BaseFlagHandlers.<h>() of ultimate-prompt-hook.py: one fixed fragment
\* for each handler
BaseFragment(h) == << "", "", "[" \o h \o " guidance of ultimate-prompt-hook.py]" >>

\* bmad(): every outcome the call can have, over the states of the disk
BmadOutcomes == {bmad(fs) : fs \in FsStates}

\* handler(): every outcome the call can have
HandlerOutcomes(h) ==
    CASE h = "engineering_standards" -> {Returned(engineering_standards)}
      [] h = "no_guess" -> {Returned(no_guess)}
      [] h = "bmad" -> BmadOutcomes
      [] h = "bmad_story" -> {Returned(bmad_story)}
      [] h = "bmad_review" -> {Returned(bmad_review)}
      [] h = "help" -> {Returned(help)}
      [] OTHER -> {Returned(BaseFragment(h))}

---------------------------------------------------------------------------
(* PromptEnhancer and write_log.                                           *)

\* datetime.now(), as it is formatted for the record and for the fragment
Timestamp == "2025-01-15T10:30:00"
FormattedDate == "January 15, 2025"

\* PromptEnhancer.__init__: log_data
NewLogData == "timestamp" :> Timestamp @@ "formatted_date" :> FormattedDate

\* an add_context that puts the fragment in front
add_context_first(cs, context) ==
    IF context # EmptyText /\ StripText(context) # EmptyText
    THEN <<StripText(context)>> \o cs
    ELSE cs
\* an add_context that skips a fragment already accumulated
add_context_once(cs, context) ==
    IF context # EmptyText /\ StripText(context) # EmptyText
       /\ \A i \in 1..Len(cs) : cs[i] # StripText(context)
    THEN Append(cs, StripText(context))
    ELSE cs
\* PromptEnhancer.add_context(context), on contexts cs
add_context(cs, context) ==
    IF context # EmptyText /\ StripText(context) # EmptyText
    THEN Append(cs, StripText(context))
    ELSE cs

\* PromptEnhancer.log_event(key, value), on log_data ld
log_event(ld, key, value) ==
    [k \in DOMAIN ld \cup {key} |-> IF k = key THEN value ELSE ld[k]]

\* a write_log without its try/except: the OSError leaves the call
write_log_unguarded(enabled, ld, written) ==
    IF ~enabled THEN [raised |-> FALSE, lines |-> <<>>]
    ELSE IF written THEN [raised |-> FALSE, lines |-> <<ld>>]
    ELSE [raised |-> TRUE, lines |-> <<>>]
\* write_log(enhancer) when ENABLE_LOGGING is enabled, log_data is ld and
\* the directory and the file can be written (written) or mkdir, open or
\* the write fail with an OSError: the lines appended, and whether an
\* exception leaves the call
write_log(enabled, ld, written) ==
    IF ~enabled THEN [raised |-> FALSE, lines |-> <<>>]
    ELSE IF written THEN [raised |-> FALSE, lines |-> <<ld>>]
    ELSE [raised |-> FALSE, lines |-> <<>>]

---------------------------------------------------------------------------
(* The input.                                                              *)

\* a JSON value that is a string, and the JSON value null
JsonString(s) == [type |-> "string", value |-> s]
JsonNull == [type |-> "null"]

\* json.load(sys.stdin) raises, returns a list, or returns a dict
MalformedInput == [kind |-> "malformed"]
ArrayInput == [kind |-> "array"]
ObjectInput(fields) == [kind |-> "object", fields |-> fields]

\* dict.get(key, default)
Get(fields, key, default) ==
    IF key \in DOMAIN fields THEN fields[key] ELSE default

RECURSIVE WithFlags(_, _)
\* the text p followed by the flags toks, each written -flag after a space
WithFlags(p, toks) ==
    IF toks = <<>> THEN p
    ELSE WithFlags(p \o (IF p = <<>> THEN <<"-">> ELSE <<" ", "-">>) \o Head(toks),
                   Tail(toks))

\* the flags users append in Spec: handled ones in several spellings, one
\* of the base mapping, and one that no mapping knows
FlagVocab ==
    { <<"e">>, <<"s", "t", "a", "n", "d", "a", "r", "d", "s">>, <<"h", "h">>, <<"b", "m", "a", "d">>, <<"z", "z">> }
\* the texts users write before the flags in Spec
Prefixes == { <<>>, <<"f", "i", "x", " ", "t", "h", "e", " ", "l", "o", "g", "i", "n", " ", "b", "u", "g">> }
FlagSeqs == UNION {[1..n -> FlagVocab] : n \in 0..MaxFlags}

FixLoginPrompt == <<"f", "i", "x", " ", "t", "h", "e", " ", "l", "o", "g", "i", "n", " ", "b", "u", "g", " ", "-", "e", " ", "-", "t", "e", "s", "t">>
BmadStoryPrompt == <<"-", "b", "m", "a", "d", "-", "s", "t", "o", "r", "y", " ", "-", "e">>

Prompts ==
    {WithFlags(p, t) : p \in Prefixes, t \in FlagSeqs}
    \cup {FixLoginPrompt, BmadStoryPrompt, <<"s", "h", "o", "w", " ", "m", "e", " ", "t", "h", "e", " ", "f", "l", "a", "g", "s", " ", "-", "b", "m", "a", "d", "_", "s", "t", "o", "r", "y">>,
          <<"h", "e", "l", "l", "o">>, <<"h", "e", "l", "l", "o", " ", "-", "e">>, <<"h", "e", "l", "l", "o", " ", "-", "e", "n", "g">>, <<"h", "e", "l", "l", "o", " ", "-", "s", "t", "a", "n", "d", "a", "r", "d", "s">>, <<"h", "e", "l", "l", "o", " ", "-", "h", "h", "e", "l", "p">>,
          <<"w", "h", "a", "t", " ", "i", "s", " ", "t", "h", "i", "s", " ", "-", "E", " ", "-", "z", "z">>, <<"f", "i", "x", " ", "i", "t", " ", "-", "e", " ", "-", "t", "e", "s", "t", "\n">>, <<"-", "H", "H">>, <<"f", "i", "x", " ", "i", "t", " ", "-", "E">>,
          <<"f", "i", "x", " ", "i", "t", " ", "-", "T", "e", "s", "t", " ", "-", "t", "e", "s", "t">>}

Inputs ==
    {MalformedInput, ArrayInput}
    \cup {ObjectInput("prompt" :> JsonString(p) @@ "session_id" :> "abc") : p \in Prompts}
    \cup {ObjectInput("session_id" :> "abc"),
          ObjectInput("prompt" :> JsonString(FixLoginPrompt)),
          ObjectInput("prompt" :> JsonNull @@ "session_id" :> "abc")}

\* the characters of the prompts given to parse_flags in SpecParse: letters
\* of both cases, the underscore, the dash, a blank, a newline and a digit
ParseAlphabet == {"a", "B", "_", "-", " ", "\n", "1"}
ParseStrings == UNION {[1..n -> ParseAlphabet] : n \in 0..MaxLen}
ParseInputs ==
    {ObjectInput("prompt" :> JsonString(p) @@ "session_id" :> "abc") : p \in ParseStrings}

---------------------------------------------------------------------------
(* main().                                                                 *)

InitLocals ==
    /\ pc = "start"
    /\ prompt = JsonNull
    /\ session_id = ""
    /\ clean_prompt = <<>>
    /\ flags = <<>>
    /\ contexts = <<>>
    /\ log_data = [k \in {} |-> ""]
    /\ applied_flags = <<>>
    /\ idx = 0
    /\ disk = [probed |-> FALSE]
    /\ probe_failed = FALSE
    /\ stdout = <<>>
    /\ stderr = <<>>
    /\ log_file = <<>>
    /\ exc = "none"
    /\ exit_code = -1

\* the fallback configuration sets ENABLE_LOGGING = True; with the base
\* module the toggle is the base module's
Init ==
    /\ stdin \in Inputs
    /\ USE_BASE_HANDLERS \in BOOLEAN
    /\ ENABLE_LOGGING \in (IF USE_BASE_HANDLERS THEN BOOLEAN ELSE {TRUE})
    /\ InitLocals

\* the except clause of main: one line on the error stream, sys.exit(1)
Fail(e) ==
    /\ exc' = e
    /\ stderr' = Append(stderr, "[Enhanced Hook Error: " \o e \o "]")
    /\ exit_code' = 1
    /\ pc' = "done"

InSeq(x, s) == \E i \in 1..Len(s) : s[i] = x

ParseInput ==
    /\ pc = "start"
    /\ IF stdin.kind = "malformed"
       THEN /\ Fail("JSONDecodeError")
            /\ UNCHANGED <<prompt, session_id, log_data>>
       ELSE IF stdin.kind # "object"
       THEN /\ Fail("AttributeError")
            /\ UNCHANGED <<prompt, session_id, log_data>>
       ELSE /\ prompt' = Get(stdin.fields, "prompt", JsonString(<<>>))
            /\ session_id' = Get(stdin.fields, "session_id", "unknown")
            /\ log_data' =
                 log_event(log_event(log_event(NewLogData,
                     "original_prompt", prompt'),
                     "session_id", session_id'),
                     "hook_version", "enhanced")
            /\ pc' = "extract"
            /\ UNCHANGED <<exc, stderr, exit_code>>
    /\ UNCHANGED <<stdin, USE_BASE_HANDLERS, ENABLE_LOGGING, clean_prompt, flags,
                   contexts, applied_flags, idx, disk, probe_failed, stdout, log_file>>

ExtractFlags ==
    /\ pc = "extract"
    /\ IF prompt.type # "string"
       THEN /\ Fail("TypeError")
            /\ UNCHANGED <<clean_prompt, flags, log_data>>
       ELSE /\ clean_prompt' = parse_flags(prompt.value)[1]
            /\ flags' = parse_flags(prompt.value)[2]
            /\ log_data' = log_event(log_event(log_data, "flags", flags'),
                                     "clean_prompt", clean_prompt')
            /\ pc' = "help"
            /\ UNCHANGED <<exc, stderr, exit_code>>
    /\ UNCHANGED <<stdin, USE_BASE_HANDLERS, ENABLE_LOGGING, prompt, session_id,
                   contexts, applied_flags, idx, disk, probe_failed, stdout, log_file>>

HelpShortCircuit ==
    /\ pc = "help"
    /\ IF strip(clean_prompt) = <<>> /\ (InSeq(<<"h", "h">>, flags) \/ InSeq(<<"h", "h", "e", "l", "p">>, flags))
       THEN /\ clean_prompt' = <<"S", "h", "o", "w", " ", "a", "v", "a", "i", "l", "a", "b", "l", "e", " ", "h", "o", "o", "k", " ", "f", "l", "a", "g", "s">>
            /\ log_data' = log_event(log_data, "help_request", TRUE)
       ELSE UNCHANGED <<clean_prompt, log_data>>
    /\ pc' = "ambient"
    /\ UNCHANGED <<stdin, USE_BASE_HANDLERS, ENABLE_LOGGING, prompt, session_id,
                   flags, contexts, applied_flags, idx, disk, probe_failed, stdout,
                   stderr, log_file, exc, exit_code>>

\* f"\n[Current Date: {datetime.now().strftime('%B %d, %Y')}]"
current_date == << "", "[Current Date: " \o FormattedDate \o "]" >>

\* subprocess.check_output(["git", "branch", "--show-current"]).decode():
\* the text git prints (a branch name and a newline, or nothing), or the
\* exception raised by the call (git exits non-zero, git is missing, the
\* process cannot be started) or by decode (the name is not UTF-8)
BranchProbeOutcomes ==
    {Returned(<< "main", "" >>), Returned(EmptyText),
     Raised("CalledProcessError"), Raised("FileNotFoundError"), Raised("OSError"),
     Raised("UnicodeDecodeError")}

\* the exceptions the except clause around the branch probe names
BranchProbeCaught == {"CalledProcessError", "FileNotFoundError", "OSError"}

AmbientContextInjection ==
    /\ pc = "ambient"
    /\ \E r \in BranchProbeOutcomes :
         LET dated == add_context(contexts, current_date)
         IN  IF r.raised
             THEN /\ probe_failed' = TRUE
                  /\ contexts' = dated
                  /\ IF r.error \in BranchProbeCaught
                     THEN /\ pc' = "default"
                          /\ UNCHANGED <<exc, stderr, exit_code>>
                     ELSE Fail(r.error)
             ELSE LET branch == StripText(r.text)
                  IN  /\ contexts' =
                           IF branch # EmptyText
                           THEN add_context(dated,
                                    Cat(Cat(<< "", "[Git Branch: " >>, branch), << "]" >>))
                           ELSE dated
                      /\ pc' = "default"
                      /\ UNCHANGED <<probe_failed, exc, stderr, exit_code>>
    /\ UNCHANGED <<stdin, USE_BASE_HANDLERS, ENABLE_LOGGING, prompt, session_id,
                   clean_prompt, flags, log_data, applied_flags, idx, disk, stdout,
                   log_file>>

DefaultGuidanceDecision ==
    /\ pc = "default"
    /\ IF /\ ~InSeq(<<"h", "h">>, flags) /\ ~InSeq(<<"h", "h", "e", "l", "p">>, flags)
          /\ should_apply_defaults(clean_prompt, flags)
          /\ ~InSeq(<<"e">>, flags) /\ ~InSeq(<<"e", "n", "g">>, flags)
       THEN /\ contexts' = add_context(contexts, engineering_standards)
            /\ log_data' = log_event(log_data, "auto_applied_enhanced_standards", TRUE)
       ELSE UNCHANGED <<contexts, log_data>>
    /\ applied_flags' = <<>>
    /\ idx' = 1
    /\ pc' = "loop"
    /\ UNCHANGED <<stdin, USE_BASE_HANDLERS, ENABLE_LOGGING, prompt, session_id,
                   clean_prompt, flags, disk, probe_failed, stdout, stderr, log_file,
                   exc, exit_code>>

\* one iteration of "for flag in flags"; the disk does not change during a
\* run, so every call of bmad() in a run meets what the first one met
ProcessFlag ==
    /\ pc = "loop"
    /\ idx <= Len(flags)
    /\ LET handler == get_enhanced_flag_handler(flags[idx], USE_BASE_HANDLERS)
           outcomes == IF handler = "bmad" /\ disk.probed
                       THEN {disk.outcome}
                       ELSE HandlerOutcomes(handler)
       IN  IF handler = "None"
           THEN /\ idx' = idx + 1
                /\ UNCHANGED <<contexts, applied_flags, disk, probe_failed, pc, exc,
                               stderr, exit_code>>
           ELSE \E r \in outcomes :
                  /\ disk' = IF handler = "bmad"
                             THEN [probed |-> TRUE, outcome |-> r] ELSE disk
                  /\ IF r.raised
                     THEN /\ probe_failed' = TRUE
                          /\ Fail(r.error)
                          /\ UNCHANGED <<contexts, applied_flags, idx>>
                     ELSE /\ contexts' = add_context(contexts, r.text)
                          /\ applied_flags' = Append(applied_flags, flags[idx])
                          /\ idx' = idx + 1
                          /\ UNCHANGED <<probe_failed, pc, exc, stderr, exit_code>>
    /\ UNCHANGED <<stdin, USE_BASE_HANDLERS, ENABLE_LOGGING, prompt, session_id,
                   clean_prompt, flags, log_data, stdout, log_file>>

\* the loop is over: enhancer.log_event("applied_flags", applied_flags)
EndLoop ==
    /\ pc = "loop"
    /\ idx > Len(flags)
    /\ log_data' = log_event(log_data, "applied_flags", applied_flags)
    /\ pc' = "emit"
    /\ UNCHANGED <<stdin, USE_BASE_HANDLERS, ENABLE_LOGGING, prompt, session_id,
                   clean_prompt, flags, contexts, applied_flags, idx, disk,
                   probe_failed, stdout, stderr, log_file, exc, exit_code>>

\* what print(output) can raise: the output holds characters (the bullets
\* of ANTI_WRAPPER_RULE, the pictographs of the help text) that the
\* encoding of standard output lacks
PrintErrors == {"UnicodeEncodeError"}

Emit ==
    /\ pc = "emit"
    /\ IF contexts # <<>>
       THEN LET output == JoinLines(contexts)
            IN  \/ /\ stdout' = Append(stdout, output)
                   /\ log_data' = log_event(log_data, "injected_context", output)
                   /\ pc' = "log"
                   /\ UNCHANGED <<exc, stderr, exit_code>>
                \/ /\ \E e \in PrintErrors : Fail(e)
                   /\ UNCHANGED <<stdout, log_data>>
       ELSE /\ pc' = "log"
            /\ UNCHANGED <<stdout, log_data, exc, stderr, exit_code>>
    /\ UNCHANGED <<stdin, USE_BASE_HANDLERS, ENABLE_LOGGING, prompt, session_id,
                   clean_prompt, flags, contexts, applied_flags, idx, disk,
                   probe_failed, log_file>>

\* write_log(enhancer); sys.exit(0)
LogWrite ==
    /\ pc = "log"
    /\ \E written \in BOOLEAN :
         LET r == write_log(ENABLE_LOGGING, log_data, written)
         IN  IF r.raised
             THEN /\ Fail("OSError")
                  /\ UNCHANGED log_file
             ELSE /\ log_file' = log_file \o r.lines
                  /\ exit_code' = 0
                  /\ pc' = "done"
                  /\ UNCHANGED <<exc, stderr>>
    /\ UNCHANGED <<stdin, USE_BASE_HANDLERS, ENABLE_LOGGING, prompt, session_id,
                   clean_prompt, flags, contexts, log_data, applied_flags, idx,
                   disk, probe_failed, stdout>>

Next ==
    \/ ParseInput
    \/ ExtractFlags
    \/ HelpShortCircuit
    \/ AmbientContextInjection
    \/ DefaultGuidanceDecision
    \/ ProcessFlag
    \/ EndLoop
    \/ Emit
    \/ LogWrite

Spec == Init /\ [][Next]_vars

\* parse_flags alone, on every prompt over ParseAlphabet of at most MaxLen
\* characters: main up to the call of parse_flags
InitParse ==
    /\ stdin \in ParseInputs
    /\ USE_BASE_HANDLERS = FALSE
    /\ ENABLE_LOGGING = TRUE
    /\ InitLocals

NextParse == ParseInput \/ ExtractFlags

SpecParse == InitParse /\ [][NextParse]_vars

---------------------------------------------------------------------------
(* Vocabulary of the properties.                                           *)

\* the FlagRegistry resolves token f
Resolved(f) == get_enhanced_flag_handler(f, USE_BASE_HANDLERS) # "None"
\* the FlagRegistry resolves token f to handler h
ResolvesTo(f, h) == get_enhanced_flag_handler(f, USE_BASE_HANDLERS) = h

\* the for loop over the flags has run to its end
LoopDone == "applied_flags" \in DOMAIN log_data

\* how many fragments of cs are the text x
Count(cs, x) == Cardinality({i \in 1..Len(cs) : cs[i] = x})

EngBlock == StripText(engineering_standards)
DateFragment == StripText(current_date)
HelpBlock == StripText(help)
BranchFragments == { <<"[Git Branch: main]">> }

\* the fragments a call of handler h can contribute
HandlerFragments(h) ==
    {StripText(r.text) : r \in {o \in HandlerOutcomes(h) : ~o.raised}}

\* the fragments appended before the for loop: the date, the branch when
\* there is one, the baseline guidance when it was auto-applied
AmbientCount ==
    1 + (IF Len(contexts) >= 2 /\ contexts[2] \in BranchFragments THEN 1 ELSE 0)
PreLoopCount ==
    AmbientCount
    + (IF "auto_applied_enhanced_standards" \in DOMAIN log_data THEN 1 ELSE 0)

---------------------------------------------------------------------------
(* C1: in a run without a help flag whose flags hold exactly one token     *)
(* that the registry resolves to the engineering-standards handler, the    *)
(* engineering-standards block is among the accumulated fragments exactly  *)
(* once after the loop.                                                    *)
C1_StandardsInjectedOnce ==
    ( /\ LoopDone
      /\ \A i \in 1..Len(flags) : ~ResolvesTo(flags[i], "help")
      /\ Cardinality({i \in 1..Len(flags) :
                        ResolvesTo(flags[i], "engineering_standards")}) = 1 )
    => Count(contexts, EngBlock) = 1

---------------------------------------------------------------------------
(* The reference of C2: the maximal trailing run of tokens -<letters or    *)
(* underscores>, each preceded by whitespace or the start of the string,   *)
(* found from the end of the string backwards.                             *)

RECURSIVE BackSkipFlagChars(_, _)
\* the last position <= e of s that holds no letter or underscore, 0 if none
BackSkipFlagChars(s, e) ==
    IF e >= 1 /\ IsFlagChar(s[e]) THEN BackSkipFlagChars(s, e - 1) ELSE e

RECURSIVE BackSkipSpaces(_, _)
\* the last position <= e of s that holds no whitespace, 0 if none
BackSkipSpaces(s, e) ==
    IF e >= 1 /\ IsSpace(s[e]) THEN BackSkipSpaces(s, e - 1) ELSE e

\* the position of the dash of the token that ends at position e, 0 when
\* no token ends there
TokenStart(s, e) ==
    LET d == BackSkipFlagChars(s, e)
    IN  IF /\ e >= 1 /\ d < e /\ d >= 1 /\ s[d] = "-"
           /\ (d = 1 \/ IsSpace(s[d - 1]))
        THEN d ELSE 0

RECURSIVE RunStart(_, _)
\* the position of the first dash of the maximal run of tokens that ends
\* at position e, 0 when no token ends there
RunStart(s, e) ==
    LET d == TokenStart(s, e)
        w == BackSkipSpaces(s, d - 1)
    IN  IF d = 0 THEN 0
        ELSE IF w < d - 1 /\ RunStart(s, w) # 0 THEN RunStart(s, w)
        ELSE d

RECURSIVE RunTokens(_, _, _)
\* the tokens of the run s[d..e], left to right, dashes stripped
RunTokens(s, d, e) ==
    IF d > e THEN <<>>
    ELSE LET k == SkipFlagChars(s, d + 1)
         IN  <<SubSeq(s, d + 1, k - 1)>> \o RunTokens(s, SkipSpaces(s, k), e)

\* what the reference returns for a string whose run of tokens ends at e
ExtractRun(s, e) ==
    <<rstrip(SubSeq(s, 1, RunStart(s, e) - 1)), RunTokens(s, RunStart(s, e), e)>>

\* the reference as the specification states it
ReferenceExtract(s) ==
    IF RunStart(s, Len(s)) # 0 THEN ExtractRun(s, Len(s)) ELSE <<s, <<>>>>

\* the reference with the run allowed to be followed by one final newline
ReferenceExtractNewline(s) ==
    IF RunStart(s, Len(s)) # 0 THEN ExtractRun(s, Len(s))
    ELSE IF s # <<>> /\ s[Len(s)] = "\n" /\ RunStart(s, Len(s) - 1) # 0
         THEN ExtractRun(s, Len(s) - 1)
         ELSE <<s, <<>>>>

(* C2 as stated: parse_flags returns what the reference returns: the       *)
(* tokens of the maximal trailing run and the right-trimmed text before    *)
(* it when the prompt ends with such a run, the prompt itself and no flag  *)
(* otherwise.                                                              *)
C2_ParseFlagsMatchesReference ==
    pc = "help" => <<clean_prompt, flags>> = ReferenceExtract(prompt.value)

(* C2 amended: the same, where the trailing run may be followed by one     *)
(* newline that ends the prompt; the newline is dropped with the run.      *)
C2_ParseFlagsMatchesReferenceNewline ==
    pc = "help" => <<clean_prompt, flags>> = ReferenceExtractNewline(prompt.value)

\* a prompt with text, a flag and a final newline has been split
C2_Witness ==
    /\ pc = "help"
    /\ flags # <<>>
    /\ clean_prompt # <<>>
    /\ prompt.value[Len(prompt.value)] = "\n"

---------------------------------------------------------------------------
(* C3: parse_flags applied to the clean prompt it returned yields that     *)
(* clean prompt again and no flag.                                         *)
C3_ParseFlagsIdempotent ==
    pc = "help" => parse_flags(clean_prompt) = <<clean_prompt, <<>>>>

\* flags were split off and the clean prompt left behind holds a dash
C3_Witness ==
    /\ pc = "help"
    /\ flags # <<>>
    /\ InSeq("-", clean_prompt)

---------------------------------------------------------------------------
(* C4 as stated: a run ends in one of two ways.  When nothing failed up    *)
(* to the end of the flag loop, the text was emitted and the exit status   *)
(* is 0, whatever became of the log; when something failed before that,    *)
(* there is one line on the error stream, exit status 1, nothing on        *)
(* standard output and no log line.                                        *)
C4_TwoOutcomes ==
    pc = "done" =>
        IF LoopDone
        THEN /\ exit_code = 0
             /\ stdout = <<JoinLines(contexts)>>
             /\ stderr = <<>>
             /\ log_file \in {<<>>, <<log_data>>}
             /\ (~ENABLE_LOGGING => log_file = <<>>)
        ELSE /\ exit_code = 1
             /\ Len(stderr) = 1
             /\ stdout = <<>>
             /\ log_file = <<>>

(* C4 amended: the two outcomes are split by whether anything failed up    *)
(* to and including Emit.  No failure: the text was emitted, exit status   *)
(* 0, whatever became of the log.  A failure: one line on the error        *)
(* stream, exit status 1, nothing on standard output, no log line; and a   *)
(* failure after the flag loop is a failure of Emit's print.               *)
C4_TwoOutcomesThroughEmit ==
    pc = "done" =>
        IF exc = "none"
        THEN /\ LoopDone
             /\ exit_code = 0
             /\ stdout = <<JoinLines(contexts)>>
             /\ stderr = <<>>
             /\ log_file \in {<<>>, <<log_data>>}
             /\ (~ENABLE_LOGGING => log_file = <<>>)
        ELSE /\ exit_code = 1
             /\ Len(stderr) = 1
             /\ stdout = <<>>
             /\ log_file = <<>>
             /\ (LoopDone => exc \in PrintErrors)

\* logging is enabled, the log could not be written, and the run succeeded
C4_Witness ==
    /\ pc = "done"
    /\ ENABLE_LOGGING
    /\ log_file = <<>>
    /\ stdout # <<>>
    /\ exit_code = 0

---------------------------------------------------------------------------
(* C5: at LogWrite the event record holds every field of the schema, the   *)
(* ones without a value for the run included.                              *)
RequiredLogKeys ==
    {"timestamp", "original_prompt", "clean_prompt", "flags", "applied_flags",
     "help_request", "auto_applied_enhanced_standards", "injected_context"}

C5_StableLogSchema == pc = "log" => RequiredLogKeys \subseteq DOMAIN log_data

---------------------------------------------------------------------------
(* C6: a failed ambient probe (the branch probe, a filesystem probe of     *)
(* bmad) never reaches main's except clause: no run in which a probe       *)
(* failed ends with the probe's exception caught there.                    *)
ProbeErrors ==
    {"CalledProcessError", "FileNotFoundError", "OSError", "UnicodeDecodeError",
     "PermissionError"}

C6_ProbeFailuresContained == probe_failed => exc \notin ProbeErrors

---------------------------------------------------------------------------
(* C7: when a token the registry resolves to the help handler is among     *)
(* the flags, baseline guidance is not auto-injected; and for an empty     *)
(* clean prompt with the single flag hh the fragments are the date, the    *)
(* branch if there is one, and the help block.                             *)
C7_HelpSuppressesBaseline ==
    /\ ( /\ pc \in {"loop", "emit", "log"}
         /\ \E i \in 1..Len(flags) : ResolvesTo(flags[i], "help") )
       => /\ "auto_applied_enhanced_standards" \notin DOMAIN log_data
          /\ Count(SubSeq(contexts, 1, PreLoopCount), EngBlock) = 0
    /\ ( /\ LoopDone
         /\ flags = << <<"h", "h">> >>
         /\ strip(log_data["clean_prompt"]) = <<>> )
       => /\ SubSeq(contexts, 1, Len(contexts) - 1)
               \in {<<DateFragment>>} \cup {<<DateFragment, b>> : b \in BranchFragments}
          /\ contexts[Len(contexts)] = HelpBlock

---------------------------------------------------------------------------
(* C8 as stated, for the runs that raise nothing: the prompt               *)
(* "fix the login bug -e -test" is split into "fix the login bug" and      *)
(* [e, test], baseline guidance is suppressed, the exit status is 0, and   *)
(* the emitted text is the handler fragments in flag order followed by     *)
(* the date and branch fragments; in every run with applied flags the      *)
(* emitted fragments start with the one of the first applied flag and end  *)
(* with the date or branch fragment.                                       *)
C8_HandlersThenAmbient ==
    (pc = "done" /\ exc = "none") =>
        /\ (applied_flags # <<>> =>
              /\ contexts[1] \in
                   HandlerFragments(get_enhanced_flag_handler(applied_flags[1],
                                                              USE_BASE_HANDLERS))
              /\ contexts[Len(contexts)] \in {DateFragment} \cup BranchFragments)
        /\ (prompt = JsonString(FixLoginPrompt) =>
              /\ clean_prompt = <<"f", "i", "x", " ", "t", "h", "e", " ", "l", "o", "g", "i", "n", " ", "b", "u", "g">>
              /\ flags = << <<"e">>, <<"t", "e", "s", "t">> >>
              /\ "auto_applied_enhanced_standards" \notin DOMAIN log_data
              /\ exit_code = 0
              /\ \E amb \in {<<DateFragment>>}
                            \cup {<<DateFragment, b>> : b \in BranchFragments} :
                   /\ contexts = <<EngBlock>>
                        \o (IF USE_BASE_HANDLERS
                            THEN <<StripText(BaseFragment("test"))>> ELSE <<>>)
                        \o amb
                   /\ stdout = <<JoinLines(contexts)>>)

(* C8 amended: in every run that emits, the exit status is 0 and the       *)
(* emitted text is the date fragment, the branch fragment if there is      *)
(* one, the baseline guidance if it was auto-applied, and then the         *)
(* handler fragments in flag order; for "fix the login bug -e -test" that  *)
(* is the date and branch fragments, the engineering-standards block and   *)
(* the test fragment when the generic collaborator is available, with      *)
(* clean prompt "fix the login bug", flags [e, test] and no baseline       *)
(* guidance.                                                               *)
C8_AmbientThenHandlers ==
    (pc = "done" /\ stdout # <<>>) =>
        /\ exit_code = 0
        /\ stdout = <<JoinLines(contexts)>>
        /\ contexts[1] = DateFragment
        /\ Len(contexts) = PreLoopCount + Len(applied_flags)
        /\ ("auto_applied_enhanced_standards" \in DOMAIN log_data
              => contexts[PreLoopCount] = EngBlock)
        /\ \A i \in 1..Len(applied_flags) :
              contexts[PreLoopCount + i] \in
                 HandlerFragments(get_enhanced_flag_handler(applied_flags[i],
                                                            USE_BASE_HANDLERS))
        /\ (prompt = JsonString(FixLoginPrompt) =>
              /\ clean_prompt = <<"f", "i", "x", " ", "t", "h", "e", " ", "l", "o", "g", "i", "n", " ", "b", "u", "g">>
              /\ flags = << <<"e">>, <<"t", "e", "s", "t">> >>
              /\ "auto_applied_enhanced_standards" \notin DOMAIN log_data
              /\ \E amb \in {<<DateFragment>>}
                            \cup {<<DateFragment, b>> : b \in BranchFragments} :
                   contexts = amb \o <<EngBlock>>
                        \o (IF USE_BASE_HANDLERS
                            THEN <<StripText(BaseFragment("test"))>> ELSE <<>>))

\* "fix the login bug -e -test" was answered with the date, the branch,
\* the engineering-standards block and the test fragment
C8_Witness ==
    /\ pc = "done"
    /\ prompt = JsonString(FixLoginPrompt)
    /\ USE_BASE_HANDLERS
    /\ stdout # <<>>
    /\ Len(contexts) = 4

---------------------------------------------------------------------------
(* C9: for the prompt "-bmad-story -e" a workflow-mode flag is among the   *)
(* extracted flags and is applied, and the fragments hold the workflow     *)
(* fragment in its "not detected" variant.                                 *)
WorkflowHandlers == {"bmad", "bmad_story", "bmad_review"}

C9_HyphenatedWorkflowFlag ==
    (LoopDone /\ prompt = JsonString(BmadStoryPrompt)) =>
        /\ \E i \in 1..Len(flags) :
              get_enhanced_flag_handler(flags[i], USE_BASE_HANDLERS) \in WorkflowHandlers
        /\ \E i \in 1..Len(applied_flags) :
              get_enhanced_flag_handler(applied_flags[i], USE_BASE_HANDLERS)
                 \in WorkflowHandlers
        /\ InSeq(StripText(BmadNotDetected), contexts)

---------------------------------------------------------------------------
(* C10: after the loop the applied flags are the flags the registry        *)
(* resolves, in order, spelled as written, duplicates kept; the loop has   *)
(* appended one handler fragment for each of them in that order and        *)
(* nothing else; and a run that fails inside the loop fails at a token     *)
(* the registry resolves.                                                  *)
C10_LoopBookkeeping ==
    /\ LoopDone =>
         /\ applied_flags = SelectSeq(flags, Resolved)
         /\ Len(contexts) = PreLoopCount + Len(applied_flags)
         /\ \A i \in 1..Len(applied_flags) :
               contexts[PreLoopCount + i] \in
                  HandlerFragments(get_enhanced_flag_handler(applied_flags[i],
                                                             USE_BASE_HANDLERS))
    /\ (pc = "done" /\ ~LoopDone /\ idx >= 1) => Resolved(flags[idx])

\* a flag written twice was applied twice
C10_Witness ==
    /\ LoopDone
    /\ Len(applied_flags) = 2
    /\ applied_flags[1] = applied_flags[2]
    /\ contexts[Len(contexts)] = contexts[Len(contexts) - 1]

=============================================================================
